---- MODULE Spec2Model ----
(***************************************************************************)
(* Grid-world MDP of src/main.py: the world model (in_grid, is_terminal,   *)
(* reward, move, transitions) and the two solvers value_iteration and      *)
(* policy_iteration, run one after the other as the main block does.       *)
(*                                                                         *)
(* Reals are fixed-point integers: a value v of the program is the integer *)
(* v * SCALE.  Probabilities are kept in tenths (0.8 -> 8, 0.1 -> 1,       *)
(* 1.0 -> 10), so an expectation sum(p * U[s2]) is held exactly at scale   *)
(* 10 * SCALE, and the one rounding of an update happens in Discounted.    *)
(***************************************************************************)
EXTENDS Integers, Sequences, FiniteSets, TLC

\* ---- resolution of the model -------------------------------------------
\* fixed-point resolution: one unit is 1/SCALE
SCALE == 10000000

\* ---- MDP definition (src/main.py:7-34) ---------------------------------
COLS == 4
ROWS == 3

OBSTACLE == <<2, 2>>

TERMINALS == (<<4, 3>> :> SCALE) @@ (<<4, 2>> :> (0 - SCALE))

\* ACTIONS of the source (ACTIONS is a reserved word of TLA+)
Actions == <<"up", "down", "left", "right">>

DELTAS == [a \in {"up", "down", "left", "right"} |->
             CASE a = "up"    -> <<0, 1>>
               [] a = "down"  -> <<0, 0 - 1>>
               [] a = "left"  -> <<0 - 1, 0>>
               [] a = "right" -> <<1, 0>>]

PERP == [a \in {"up", "down", "left", "right"} |->
           IF a \in {"up", "down"} THEN <<"left", "right">>
                                   ELSE <<"up", "down">>]

\* GAMMA = 0.9 as GAMMA_NUM / P_ONE
GAMMA_NUM == 9
\* STEP_REWARD = -0.04
STEP_REWARD == 0 - ((4 * SCALE) \div 100)

\* transition weights in tenths: 0.8 intended, 0.1 per slip, 1.0 in total
P_INTENDED == 8
P_SLIP == 1
P_ONE == 10

\* theta = 1e-5 (default argument of value_iteration) and the literal 1e-5
\* of the policy-evaluation loop
THETA == SCALE \div 100000
EVAL_THETA == SCALE \div 100000

ActionSet == {Actions[k] : k \in 1..Len(Actions)}

\* ---- helper functions (src/main.py:38-74) -------------------------------
\* in_grid without its obstacle test
in_gridBoundsOnly(s) ==
  IF s[1] < 1 \/ s[1] > COLS \/ s[2] < 1 \/ s[2] > ROWS THEN FALSE
  ELSE TRUE

in_grid(s) ==
  IF s[1] < 1 \/ s[1] > COLS \/ s[2] < 1 \/ s[2] > ROWS THEN FALSE
  ELSE IF s = OBSTACLE THEN FALSE
  ELSE TRUE

\* is_terminal that recognises no state
is_terminalNever(s) == FALSE

is_terminal(s) == s \in DOMAIN TERMINALS

reward(s) == IF s \in DOMAIN TERMINALS THEN TERMINALS[s] ELSE STEP_REWARD

move(s, action) ==
  LET s2 == <<s[1] + DELTAS[action][1], s[2] + DELTAS[action][2]>>
  IN  IF in_grid(s2) THEN s2 ELSE s

\* probs.get(k, 0)
DictGet(probs, k) == IF k \in DOMAIN probs THEN probs[k] ELSE 0

\* probs[k] = v
DictPut(probs, k, v) ==
  [d \in (DOMAIN probs) \cup {k} |-> IF d = k THEN v ELSE probs[d]]

\* the list [(a, 0.8)] + [(slip, 0.1) for slip in PERP[a]]
SubActions(a) ==
  <<[act |-> a, p |-> P_INTENDED]>> \o
  [k \in 1..Len(PERP[a]) |-> [act |-> PERP[a][k], p |-> P_SLIP]]

\* the loop body with the weight overwritten: probs[s2] = p
AccumulateOverwrite(probs, s2, p) == DictPut(probs, s2, p)

\* one pass of the loop body: probs[s2] = probs.get(s2, 0) + p

Accumulate(probs, s2, p) == DictPut(probs, s2, DictGet(probs, s2) + p)

RECURSIVE TransLoop(_, _, _, _)
TransLoop(probs, s, subs, k) ==
  IF k > Len(subs) THEN probs
  ELSE TransLoop(Accumulate(probs, move(s, subs[k].act), subs[k].p),
                 s, subs, k + 1)

\* transitions without its early return for a terminal state
TerminalDistNone(s, a) == TransLoop(<< >>, s, SubActions(a), 1)

\* the early return of transitions for a terminal state: {s: 1.0}
TerminalDist(s, a) == (s :> P_ONE)

transitions(s, a) ==
  IF is_terminal(s) THEN TerminalDist(s, a)
  ELSE TransLoop(<< >>, s, SubActions(a), 1)

\* ---- the state list built by both solvers -------------------------------
states ==
  SelectSeq([k \in 1..(COLS * ROWS) |->
               <<((k - 1) \div ROWS) + 1, ((k - 1) % ROWS) + 1>>],
            LAMBDA s : s # OBSTACLE)

StateSet == {states[k] : k \in 1..Len(states)}

\* ---- arithmetic shared by the solvers ----------------------------------
Abs(x) == IF x < 0 THEN 0 - x ELSE x

Max(x, y) == IF y > x THEN y ELSE x

\* sum(p * U[s2] for s2, p in T.items()), at scale P_ONE * SCALE
RECURSIVE SumItems(_, _, _)
SumItems(T, Uf, keys) ==
  IF keys = {} THEN 0
  ELSE LET d == CHOOSE e \in keys : TRUE
       IN  T[d] * Uf[d] + SumItems(T, Uf, keys \ {d})

\* transitions is pure and is only ever called on the states of the state
\* list: its value at every (s, a), computed once
TransitionTable ==
  [s \in StateSet |-> [a \in ActionSet |-> transitions(s, a)]]

Expected(Uf, s, a) ==
  SumItems(TransitionTable[s][a], Uf, DOMAIN TransitionTable[s][a])

\* GAMMA * q for an expectation q at scale P_ONE * SCALE, rounded to the
\* nearest unit of 1/SCALE
Discounted(q) ==
  (GAMMA_NUM * q + ((P_ONE * P_ONE) \div 2)) \div (P_ONE * P_ONE)

\* max(q_values) over the actions k..Len(Actions)
RECURSIVE MaxQ(_, _, _)
MaxQ(Uf, s, k) ==
  IF k = Len(Actions) THEN Expected(Uf, s, Actions[k])
  ELSE Max(Expected(Uf, s, Actions[k]), MaxQ(Uf, s, k + 1))

\* the comparison by which max(ACTIONS, key=...) replaces its best-so-far
KeyGreaterReversed(q, best) == q < best

KeyGreater(q, best) == q > best

\* max(ACTIONS, key=lambda a: sum(...)): scan in list order, keep the first
\* action whose key is maximal
RECURSIVE ArgMaxFrom(_, _, _, _)
ArgMaxFrom(Uf, s, k, best) ==
  IF k > Len(Actions) THEN best
  ELSE IF KeyGreater(Expected(Uf, s, Actions[k]), Expected(Uf, s, best))
       THEN ArgMaxFrom(Uf, s, k + 1, Actions[k])
       ELSE ArgMaxFrom(Uf, s, k + 1, best)

best_a(Uf, s) == ArgMaxFrom(Uf, s, 2, Actions[1])

\* ---- value_iteration (src/main.py:78-112) -------------------------------
InitU_vi == [s \in StateSet |-> IF is_terminal(s) THEN reward(s) ELSE 0]

\* the Bellman update of one state: the q values read Uold (the U of the
\* sweep's start), never the U_new being filled in
BellmanGaussSeidel(Uold, Unew, s) == reward(s) + Discounted(MaxQ(Unew, s, 1))

Bellman(Uold, Unew, s) == reward(s) + Discounted(MaxQ(Uold, s, 1))

\* the loop exits of both solvers: delta_max < theta
NeverConverged(d, theta) == d < 0

Converged(d, theta) == d < theta

\* ---- policy_iteration (src/main.py:116-158) -----------------------------
InitPi == [s \in StateSet |-> IF is_terminal(s) THEN "None" ELSE "up"]

\* the initial U with the terminal rewards, as value_iteration builds it
InitU_piTerminalRewards ==
  [s \in StateSet |-> IF is_terminal(s) THEN reward(s) ELSE 0]

\* U = {s: 0.0 for s in states}
InitU_pi == [s \in StateSet |-> 0]

\* evaluation of one state under the fixed policy
EvalUpdate(Uf, pol, s) == reward(s) + Discounted(Expected(Uf, s, pol[s]))

\* ---- state --------------------------------------------------------------
\* a name that is not bound (yet, or any more) holds Unbound
Unbound == << >>

VARIABLES
  pc,             \* position of the main block and of the running solver
  i,              \* index into states of the running "for s in states" loop
  U,              \* the running solver's U
  U_new,          \* value_iteration's U_new
  delta_max,      \* the running loop's delta_max
  pi,             \* the running solver's pi
  policy_stable,  \* policy_iteration's policy_stable
  U_vi, pi_vi,    \* main: the result of value_iteration()
  U_pi, pi_pi,    \* main: the result of policy_iteration()
  qpc, qs, qa,    \* a direct call of the world model: position, arguments
  qmove, qtrans   \* and the results of move(qs, qa), transitions(qs, qa)

solverVars == <<pc, i, U, U_new, delta_max, pi, policy_stable,
                U_vi, pi_vi, U_pi, pi_pi>>
queryVars == <<qpc, qs, qa, qmove, qtrans>>
vars == <<pc, i, U, U_new, delta_max, pi, policy_stable,
          U_vi, pi_vi, U_pi, pi_pi, qpc, qs, qa, qmove, qtrans>>

SolverInit ==
  /\ pc = "main_vi"
  /\ i = 0
  /\ U = Unbound
  /\ U_new = Unbound
  /\ delta_max = 0
  /\ pi = Unbound
  /\ policy_stable = TRUE
  /\ U_vi = Unbound
  /\ pi_vi = Unbound
  /\ U_pi = Unbound
  /\ pi_pi = Unbound

\* the main block: no direct call of the world model is in progress
Init ==
  /\ SolverInit
  /\ qpc = "idle"
  /\ qs = <<1, 1>>
  /\ qa = "up"
  /\ qmove = Unbound
  /\ qtrans = Unbound

\* ---- value_iteration ----------------------------------------------------
\* lines 79-83
VIInit ==
  /\ pc = "main_vi"
  /\ U' = InitU_vi
  /\ pc' = "vi_sweep_begin"
  /\ UNCHANGED <<i, U_new, delta_max, pi, policy_stable,
                 U_vi, pi_vi, U_pi, pi_pi>>
  /\ UNCHANGED queryVars

\* lines 86-87
VISweepBegin ==
  /\ pc = "vi_sweep_begin"
  /\ delta_max' = 0
  /\ U_new' = U
  /\ i' = 1
  /\ pc' = "vi_sweep"
  /\ UNCHANGED <<U, pi, policy_stable, U_vi, pi_vi, U_pi, pi_pi>>
  /\ UNCHANGED queryVars

\* lines 88-97, one iteration of "for s in states"
VISweepStep ==
  /\ pc = "vi_sweep"
  /\ i <= Len(states)
  /\ LET s == states[i] IN
       IF is_terminal(s)
       THEN UNCHANGED <<U_new, delta_max>>
       ELSE LET v == Bellman(U, U_new, s) IN
              /\ U_new' = [U_new EXCEPT ![s] = v]
              /\ delta_max' = Max(delta_max, Abs(v - U[s]))
  /\ i' = i + 1
  /\ UNCHANGED <<pc, U, pi, policy_stable, U_vi, pi_vi, U_pi, pi_pi>>
  /\ UNCHANGED queryVars

\* lines 98-100 and 103
VISweepEnd ==
  /\ pc = "vi_sweep"
  /\ i > Len(states)
  /\ U' = U_new
  /\ IF Converged(delta_max, THETA)
     THEN /\ pc' = "vi_extract"
          /\ pi' = Unbound
          /\ i' = 1
     ELSE /\ pc' = "vi_sweep_begin"
          /\ UNCHANGED <<pi, i>>
  /\ UNCHANGED <<U_new, delta_max, policy_stable, U_vi, pi_vi, U_pi, pi_pi>>
  /\ UNCHANGED queryVars

\* lines 104-111, one iteration of "for s in states"
VIExtractStep ==
  /\ pc = "vi_extract"
  /\ i <= Len(states)
  /\ LET s == states[i] IN
       pi' = DictPut(pi, s, IF is_terminal(s) THEN "None" ELSE best_a(U, s))
  /\ i' = i + 1
  /\ UNCHANGED <<pc, U, U_new, delta_max, policy_stable,
                 U_vi, pi_vi, U_pi, pi_pi>>
  /\ UNCHANGED queryVars

\* line 112 and the assignment of line 188; the solver's locals die
VIReturn ==
  /\ pc = "vi_extract"
  /\ i > Len(states)
  /\ U_vi' = U
  /\ pi_vi' = pi
  /\ U' = Unbound
  /\ U_new' = Unbound
  /\ pi' = Unbound
  /\ delta_max' = 0
  /\ i' = 0
  /\ pc' = "main_pi"
  /\ UNCHANGED <<policy_stable, U_pi, pi_pi>>
  /\ UNCHANGED queryVars

\* ---- policy_iteration ---------------------------------------------------
\* lines 117-125
PIInit ==
  /\ pc = "main_pi"
  /\ pi' = InitPi
  /\ U' = InitU_pi
  /\ pc' = "pi_eval_begin"
  /\ UNCHANGED <<i, U_new, delta_max, policy_stable,
                 U_vi, pi_vi, U_pi, pi_pi>>
  /\ UNCHANGED queryVars

\* line 129
PIEvalBegin ==
  /\ pc = "pi_eval_begin"
  /\ delta_max' = 0
  /\ i' = 1
  /\ pc' = "pi_eval"
  /\ UNCHANGED <<U, U_new, pi, policy_stable, U_vi, pi_vi, U_pi, pi_pi>>
  /\ UNCHANGED queryVars

\* lines 130-137, one iteration of "for s in states" (in place)
PIEvalStep ==
  /\ pc = "pi_eval"
  /\ i <= Len(states)
  /\ LET s == states[i] IN
       IF is_terminal(s)
       THEN UNCHANGED <<U, delta_max>>
       ELSE LET v == EvalUpdate(U, pi, s) IN
              /\ delta_max' = Max(delta_max, Abs(v - U[s]))
              /\ U' = [U EXCEPT ![s] = v]
  /\ i' = i + 1
  /\ UNCHANGED <<pc, U_new, pi, policy_stable, U_vi, pi_vi, U_pi, pi_pi>>
  /\ UNCHANGED queryVars

\* lines 138-139 and 142
PIEvalEnd ==
  /\ pc = "pi_eval"
  /\ i > Len(states)
  /\ IF Converged(delta_max, EVAL_THETA)
     THEN /\ pc' = "pi_improve"
          /\ policy_stable' = TRUE
          /\ i' = 1
     ELSE /\ pc' = "pi_eval_begin"
          /\ UNCHANGED <<policy_stable, i>>
  /\ UNCHANGED <<U, U_new, delta_max, pi, U_vi, pi_vi, U_pi, pi_pi>>
  /\ UNCHANGED queryVars

\* lines 143-153, one iteration of "for s in states"
PIImproveStep ==
  /\ pc = "pi_improve"
  /\ i <= Len(states)
  /\ LET s == states[i] IN
       IF is_terminal(s)
       THEN UNCHANGED <<pi, policy_stable>>
       ELSE LET old_action == pi[s]
                b == best_a(U, s)
            IN  /\ pi' = [pi EXCEPT ![s] = b]
                /\ policy_stable' =
                     IF b # old_action THEN FALSE ELSE policy_stable
  /\ i' = i + 1
  /\ UNCHANGED <<pc, U, U_new, delta_max, U_vi, pi_vi, U_pi, pi_pi>>
  /\ UNCHANGED queryVars

\* lines 155-158 and the assignment of line 193
PIImproveEnd ==
  /\ pc = "pi_improve"
  /\ i > Len(states)
  /\ IF policy_stable
     THEN /\ U_pi' = U
          /\ pi_pi' = pi
          /\ U' = Unbound
          /\ pi' = Unbound
          /\ i' = 0
          /\ pc' = "done"
     ELSE /\ pc' = "pi_eval_begin"
          /\ UNCHANGED <<U_pi, pi_pi, U, pi, i>>
  /\ UNCHANGED <<U_new, delta_max, policy_stable, U_vi, pi_vi>>
  /\ UNCHANGED queryVars

Next ==
  \/ VIInit
  \/ VISweepBegin
  \/ VISweepStep
  \/ VISweepEnd
  \/ VIExtractStep
  \/ VIReturn
  \/ PIInit
  \/ PIEvalBegin
  \/ PIEvalStep
  \/ PIEvalEnd
  \/ PIImproveStep
  \/ PIImproveEnd

Spec == Init /\ [][Next]_vars

\* the interpreter runs the main block to its end: no step that is enabled is
\* postponed forever
FairSpec == Init /\ [][Next]_vars /\ WF_vars(Next)

\* ---- direct calls of the world model ------------------------------------
\* move and transitions are pure: a call is made with any state of the state
\* list and any action, move first and transitions after it
InitWorld ==
  /\ SolverInit
  /\ qpc = "call"
  /\ qs \in StateSet
  /\ qa \in ActionSet
  /\ qmove = Unbound
  /\ qtrans = Unbound

QMove ==
  /\ qpc = "call"
  /\ qmove' = move(qs, qa)
  /\ qpc' = "moved"
  /\ UNCHANGED <<qs, qa, qtrans>>
  /\ UNCHANGED solverVars

QTransitions ==
  /\ qpc = "moved"
  /\ qtrans' = transitions(qs, qa)
  /\ qpc' = "returned"
  /\ UNCHANGED <<qs, qa, qmove>>
  /\ UNCHANGED solverVars

NextWorld ==
  \/ QMove
  \/ QTransitions

SpecWorld == InitWorld /\ [][NextWorld]_vars

\* ---- properties ---------------------------------------------------------
VIPcs == {"vi_sweep_begin", "vi_sweep", "vi_extract"}
PIPcs == {"pi_eval_begin", "pi_eval", "pi_improve"}

\* value_iteration has returned
VIReturned == pc \in {"main_pi", "done"} \cup PIPcs

\* 1e-3
Tolerance == SCALE \div 1000

\* C1: with the default constants the two returned value functions are equal
\* within 1e-3 at every valid state and the two returned policies give every
\* non-terminal state the same action.
C1_SolversAgree ==
  pc = "done" =>
    \A s \in StateSet :
      /\ Abs(U_vi[s] - U_pi[s]) <= Tolerance
      /\ ~(s \in DOMAIN TERMINALS) => pi_vi[s] = pi_pi[s]

\* C2: at every point of either solver's run, and in the returned U,
\* U[t] = TERMINALS[t] for every terminal state t.
C2_TerminalsFixed ==
  \A t \in DOMAIN TERMINALS :
    /\ pc \in VIPcs \cup PIPcs => U[t] = TERMINALS[t]
    /\ VIReturned => U_vi[t] = TERMINALS[t]
    /\ pc = "done" => U_pi[t] = TERMINALS[t]

RECURSIVE SumWeights(_, _)
SumWeights(T, keys) ==
  IF keys = {} THEN 0
  ELSE LET d == CHOOSE e \in keys : TRUE
       IN  T[d] + SumWeights(T, keys \ {d})

\* the weight the three sub-actions of (s, a) put on destination d
WeightOn(s, a, d) ==
    (IF move(s, a) = d THEN P_INTENDED ELSE 0)
  + (IF move(s, PERP[a][1]) = d THEN P_SLIP ELSE 0)
  + (IF move(s, PERP[a][2]) = d THEN P_SLIP ELSE 0)

\* C4: for every legal state and action the weights of transitions(s, a) sum
\* to 1.0; for a non-terminal state each destination carries the sum of the
\* weights (0.8 intended, 0.1 per slip) of the sub-actions landing on it.
C4_WeightsSumToOne ==
  qpc = "returned" =>
    /\ SumWeights(qtrans, DOMAIN qtrans) = P_ONE
    /\ ~(qs \in DOMAIN TERMINALS) =>
         /\ \A d \in StateSet :
              DictGet(qtrans, d) = WeightOn(qs, qa, d)
         /\ \A d \in DOMAIN qtrans : qtrans[d] > 0

\* two sub-actions land on the same destination
C4_Witness ==
  /\ qpc = "returned"
  /\ ~(qs \in DOMAIN TERMINALS)
  /\ Cardinality(DOMAIN qtrans) = 2
  /\ \E d \in DOMAIN qtrans : qtrans[d] = P_INTENDED + P_SLIP

\* C5: for a terminal state t and any action, transitions(t, a) is exactly
\* the one-entry distribution {t: 1.0}.
C5_TerminalsAbsorbing ==
  qpc = "returned" /\ qs \in DOMAIN TERMINALS =>
    /\ DOMAIN qtrans = {qs}
    /\ qtrans[qs] = P_ONE

\* transitions called on a terminal with an action whose move leaves it
C5_Witness ==
  /\ qpc = "returned"
  /\ qs \in DOMAIN TERMINALS
  /\ qmove # qs

\* the coordinate an action displaces a state to
Displaced(s, a) ==
  <<s[1] + (IF a = "right" THEN 1 ELSE IF a = "left" THEN 0 - 1 ELSE 0),
    s[2] + (IF a = "up" THEN 1 ELSE IF a = "down" THEN 0 - 1 ELSE 0)>>

\* C6: move(s, a) is the displaced coordinate when that is inside the grid
\* and is not the obstacle, and s otherwise; the result is a legal state, and
\* every key of a transition distribution is a legal state.
C6_MoveLegal ==
  /\ qpc \in {"moved", "returned"} =>
       /\ qmove = IF Displaced(qs, qa) \in StateSet THEN Displaced(qs, qa)
                                                   ELSE qs
       /\ qmove \in StateSet
  /\ qpc = "returned" => \A d \in DOMAIN qtrans : d \in StateSet

\* a move into the obstacle, from a state next to it
C6_Witness ==
  /\ qpc = "returned"
  /\ Displaced(qs, qa) = OBSTACLE
  /\ qmove = qs

\* C7: both solvers terminate: every sweep loop of value_iteration and every
\* policy-evaluation loop reaches a sweep whose maximum change is below its
\* threshold, and the outer loop of policy_iteration reaches a stable
\* improvement pass, after which the main block is done.
C7_Terminates ==
  /\ (pc = "vi_sweep_begin") ~> (pc = "vi_extract")
  /\ (pc = "pi_eval_begin") ~> (pc = "pi_improve")
  /\ <>(pc = "done")

C7_Witness ==
  /\ pc = "done"
  /\ policy_stable
  /\ delta_max < EVAL_THETA

\* pol[s] is the first action, in the order of the action list, whose
\* expected U is maximal; a terminal state has None
IsGreedy(Uf, pol, s) ==
  IF s \in DOMAIN TERMINALS THEN pol[s] = "None"
  ELSE \E k \in 1..Len(Actions) :
         /\ pol[s] = Actions[k]
         /\ \A j \in 1..Len(Actions) :
              /\ Expected(Uf, s, Actions[j]) <= Expected(Uf, s, Actions[k])
              /\ j < k =>
                   Expected(Uf, s, Actions[j]) < Expected(Uf, s, Actions[k])

\* C8: the policy each solver returns is greedy, first maximal action in the
\* order up, down, left, right, against the value function returned with it,
\* and is None at every terminal state.
C8_Greedy ==
  /\ VIReturned =>
       /\ DOMAIN pi_vi = StateSet
       /\ \A s \in StateSet : IsGreedy(U_vi, pi_vi, s)
  /\ pc = "done" =>
       /\ DOMAIN pi_pi = StateSet
       /\ \A s \in StateSet : IsGreedy(U_pi, pi_pi, s)

\* both policies returned, and they differ from the initial all-up policy
C8_Witness ==
  /\ pc = "done"
  /\ \E s \in StateSet : pi_vi[s] \notin {"up", "None"}
  /\ \E s \in StateSet : pi_pi[s] \notin {"up", "None"}

\* during a sweep, the states already visited hold the update computed from
\* U, the others still hold U's value
SweepSynchronous ==
  pc = "vi_sweep" =>
    \A k \in 1..Len(states) :
      U_new[states[k]] =
        IF k < i /\ ~(states[k] \in DOMAIN TERMINALS)
        THEN reward(states[k]) + Discounted(MaxQ(U, states[k], 1))
        ELSE U[states[k]]

\* U changes inside value_iteration's loop only at the end of a sweep, where
\* it becomes U_new
SweepReplacesOnce ==
  (pc \in VIPcs /\ pc' \in VIPcs /\ U' # U) =>
    /\ pc = "vi_sweep"
    /\ i > Len(states)
    /\ pc' # "vi_sweep"
    /\ U' = U_new

\* C9: a value_iteration sweep is synchronous: every new value is computed
\* from the U held at the start of the sweep, U is unchanged while the sweep
\* runs, and U is replaced by U_new once, at the end of the sweep.
C9_SynchronousSweep == []SweepSynchronous /\ [][SweepReplacesOnce]_vars

\* in the middle of a later sweep: some values are new, the rest are old
C9_Witness ==
  /\ pc = "vi_sweep"
  /\ i = 7
  /\ U[<<1, 1>>] # 0
  /\ U_new[<<1, 1>>] # U[<<1, 1>>]

\* C10 as stated: the update reward(t) + GAMMA * (expected U over
\* transitions(t, a)) applied to a terminal state t leaves U[t] unchanged.
C10_UpdateKeepsTerminal ==
  pc \in VIPcs \cup PIPcs =>
    \A t \in DOMAIN TERMINALS : \A a \in ActionSet :
      reward(t) + Discounted(Expected(U, t, a)) = U[t]

\* C10 amended: for a terminal state t the expected U over transitions(t, a)
\* is U[t] for every action, but the update reward(t) + GAMMA * U[t] is not
\* U[t]: the skip is what keeps U[t] fixed.
C10_SkipRequired ==
  pc \in VIPcs \cup PIPcs =>
    \A t \in DOMAIN TERMINALS : \A a \in ActionSet :
      /\ Expected(U, t, a) = P_ONE * U[t]
      /\ reward(t) + Discounted(Expected(U, t, a)) # U[t]

\* a sweep has just skipped a terminal state
C10_Witness ==
  /\ pc \in {"vi_sweep", "pi_eval"}
  /\ i > 1
  /\ i <= Len(states) + 1
  /\ states[i - 1] \in DOMAIN TERMINALS

====
